---- MODULE Spec2Model ----
(***************************************************************************)
(* A model of django2jinja.py: the Writer that walks a parsed Django       *)
(* template and writes the equivalent Jinja2 source.                       *)
(*                                                                         *)
(* Text that the code inspects character by character (identifiers, text   *)
(* nodes, literals) is a sequence of one-character strings; text that is   *)
(* only appended to a stream is a string.  Str turns the first into the    *)
(* second.                                                                 *)
(***************************************************************************)
EXTENDS Integers, Sequences, FiniteSets, TLC

VARIABLES
    writer,     \* the Writer instance: a record of its attributes
    template,   \* the parsed template: template.template.nodelist
    args,       \* the constructor arguments every Writer is built with
    stack,      \* the call stack of Writer.body and the handlers waiting on it
    pos,        \* how many nodes the current conversion has dispatched
    consumed,   \* the cycle nodes (by document position) whose raw_cycle_vars iterator is exhausted
    files,      \* the output files finished so far
    calls,      \* the translate_variable_name calls made at the current loop depth
    condition,  \* the condition tree handed to if_condition_to_bits
    bits,       \* what if_condition_to_bits returned for it
    registered, \* what the node decorator has added to _node_handlers since the import
    _resolved_simple_tags,  \* the module's reverse index of simple tags
    threads     \* the get_simple_tag_name calls in progress, one per thread

vars ==
    <<writer, template, args, stack, pos, consumed, files, calls, condition, bits,
      registered, _resolved_simple_tags, threads>>

None == <<>>

(***************************************************************************)
(* Bounds of the model.                                                    *)
(***************************************************************************)
MaxSegs == 2        \* segments of an identifier handed to translate_variable_name
MaxCalls == 2       \* chained translate_variable_name calls
MaxLoopDepth == 2   \* enter_loop calls outstanding when identifiers are translated
MaxCondDepth == 2   \* height of a condition tree
MaxNodes == 3       \* nodes of a generated template
MaxRuns == 2        \* conversions of the same parsed template
MaxTags == 2        \* simple tags registered in the loaded tag libraries
MaxThreads == 2     \* threads that call get_simple_tag_name

(***************************************************************************)
(* Strings.                                                                *)
(***************************************************************************)
RECURSIVE Str(_)
Str(s) == IF s = <<>> THEN "" ELSE Head(s) \o Str(Tail(s))

startswith(s, prefix) ==
    /\ Len(s) >= Len(prefix)
    /\ SubSeq(s, 1, Len(prefix)) = prefix

slice_from(s, n) == SubSeq(s, n + 1, Len(s))

Whitespace == {" ", "\t", "\n", "\r"}

RECURSIVE lstrip(_)
lstrip(s) ==
    IF s # <<>> /\ Head(s) \in Whitespace THEN lstrip(Tail(s)) ELSE s

RECURSIVE rstrip(_)
rstrip(s) ==
    IF s # <<>> /\ s[Len(s)] \in Whitespace
    THEN rstrip(SubSeq(s, 1, Len(s) - 1))
    ELSE s

RECURSIVE join(_, _)
join(sep, parts) ==
    IF parts = <<>> THEN <<>>
    ELSE IF Len(parts) = 1 THEN parts[1]
    ELSE parts[1] \o sep \o join(sep, Tail(parts))

(***************************************************************************)
(* Regular expressions, as far as the documented var_re rules use them: a  *)
(* pattern is an ordered list of alternatives, an alternative a sequence   *)
(* of literal characters and Dot (the regex dot).                          *)
(***************************************************************************)
Dot == "<dot>"

MatchesAt(alt, s, i) ==
    /\ i + Len(alt) - 1 <= Len(s)
    /\ \A k \in 1..Len(alt) :
          \/ alt[k] = s[i + k - 1]
          \/ alt[k] = Dot /\ s[i + k - 1] # "\n"

\* length of the match the pattern finds at position i; 0 when there is none
MatchLen(pattern, s, i) ==
    LET hits == {a \in 1..Len(pattern) : MatchesAt(pattern[a], s, i)}
    IN  IF hits = {} THEN 0
        ELSE Len(pattern[CHOOSE a \in hits : \A b \in hits : a <= b])

search(pattern, s) == \E i \in 1..Len(s) : MatchLen(pattern, s, i) > 0

RECURSIVE sub_from(_, _, _, _)
sub_from(pattern, rep, s, i) ==
    IF i > Len(s) THEN <<>>
    ELSE LET n == MatchLen(pattern, s, i)
         IN  IF n > 0
             THEN rep \o sub_from(pattern, rep, s, i + n)
             ELSE <<s[i]>> \o sub_from(pattern, rep, s, i + 1)

sub(pattern, rep, s) == sub_from(pattern, rep, s, 1)

(***************************************************************************)
(* Identifiers and the documented rules.                                   *)
(***************************************************************************)
c_dot == <<".">>
c_call == <<"(", ")">>
s_forloop == <<"f", "o", "r", "l", "o", "o", "p">>
s_loop == <<"l", "o", "o", "p">>
s_form == <<"f", "o", "r", "m">>
s_page == <<"p", "a", "g", "e">>
s_url == <<"u", "r", "l">>
s_counter == <<"c", "o", "u", "n", "t", "e", "r">>
s_index == <<"i", "n", "d", "e", "x">>
s_items == <<"i", "t", "e", "m", "s">>
s_item == <<"i", "t", "e", "m">>
s_name == <<"n", "a", "m", "e">>
s_calendar == <<"c", "a", "l", "e", "n", "d", "a", "r">>
s_block == <<"b", "l", "o", "c", "k">>
s_super == <<"s", "u", "p", "e", "r">>

\* (re.compile(r"\.url"), r".url()", re.compile(r"(form|calendar).url"))
rule_url ==
    [reg |-> <<c_dot \o s_url>>,
     rep |-> c_dot \o s_url \o c_call,
     unless |-> <<s_form \o <<Dot>> \o s_url, s_calendar \o <<Dot>> \o s_url>>]

\* (re.compile(r"loop\.counter"), r"loop.index", None)
rule_counter ==
    [reg |-> <<s_loop \o c_dot \o s_counter>>,
     rep |-> s_loop \o c_dot \o s_index,
     unless |-> None]

\* (re.compile(r"\.items"), r".items()", None)
rule_items ==
    [reg |-> <<c_dot \o s_items>>,
     rep |-> c_dot \o s_items \o c_call,
     unless |-> None]

var_re_example == <<rule_url, rule_counter, rule_items>>

\* the rule lists a Writer is built with: the contiguous parts of the example
RuleLists ==
    {SubSeq(var_re_example, i, j) : i \in 1..Len(var_re_example) + 1, j \in 0..Len(var_re_example)}

Segments == {s_forloop, s_loop, s_form, s_page, s_url, s_counter, s_items}

RECURSIVE SegLists(_)
SegLists(n) ==
    IF n = 0 THEN {<<>>}
    ELSE SegLists(n - 1) \cup {<<s>> \o l : s \in Segments, l \in {m \in SegLists(n - 1) : Len(m) = n - 1}}

Names == {join(c_dot, l) : l \in SegLists(MaxSegs) \ {<<>>}}

(***************************************************************************)
(* The Writer.  A Writer is a record of its attributes; a method is an     *)
(* operator from the Writer (and its arguments) to the Writer afterwards.  *)
(* stream is the text written to the output so far, error_stream the lines *)
(* printed to the diagnostic stream.  raised is not an attribute: it holds *)
(* the exception that is propagating, after which nothing more is written. *)
(***************************************************************************)
NoHandler == "<no handler>"
NotRaised == "<not raised>"

\* the handler table the @node decorators fill, in registration order
\* (a key is a node class or, for late-bound nodes, a class name)
_node_handlers ==
    << <<<<"type", "TextNode">>, "text_node">>,
       <<<<"type", "Variable">>, "variable">>,
       <<<<"type", "VariableNode">>, "variable_node">>,
       <<<<"type", "FilterExpression">>, "filter_expression">>,
       <<<<"type", "CommentNode">>, "comment_tag">>,
       <<<<"type", "DebugNode">>, "debug_tag">>,
       <<<<"type", "ForNode">>, "for_loop">>,
       <<<<"type", "IfNode">>, "if_condition">>,
       <<<<"str", "Operator">>, "operator">>,
       <<<<"type", "IfEqualNode">>, "if_equal">>,
       <<<<"type", "BlockNode">>, "block">>,
       <<<<"type", "ExtendsNode">>, "extends">>,
       <<<<"type", "IncludeNode">>, "include">>,
       <<<<"type", "CycleNode">>, "cycle">>,
       <<<<"type", "FilterNode">>, "filter">>,
       <<<<"type", "AutoEscapeControlNode">>, "autoescape_control">>,
       <<<<"type", "SpacelessNode">>, "spaceless">>,
       <<<<"type", "TemplateTagNode">>, "template_tag">>,
       <<<<"type", "URLNode">>, "url_tag">>,
       <<<<"type", "WidthRatioNode">>, "width_ratio">>,
       <<<<"type", "WithNode">>, "with_block">>,
       <<<<"type", "RegroupNode">>, "regroup">>,
       <<<<"type", "LoadNode">>, "warn_load">>,
       <<<<"type", "GetAvailableLanguagesNode">>, "get_available_languages">>,
       <<<<"type", "GetCurrentLanguageNode">>, "get_current_language">>,
       <<<<"type", "GetCurrentLanguageBidiNode">>, "get_current_language_bidi">>,
       <<<<"type", "TranslateNode">>, "simple_gettext">>,
       <<<<"type", "BlockTranslateNode">>, "translate_block">>,
       <<<<"str", "SimpleNode">>, "simple_tag">>,
       <<<<"str", "InclusionNode">>, "inclusion_tag">>,
       <<<<"type", "StaticNode">>, "static_tag">>,
       <<<<"type", "CsrfTokenNode">>, "csrf_tag">>,
       <<<<"type", "VerbatimNode">>, "verbatim_tag">>,
       <<<<"type", "LoremNode">>, "lorem_tag">> >>

\* d[key] = value on a dict, which keeps its keys in insertion order
dict_set(d, key, value) ==
    IF \E i \in 1..Len(d) : d[i][1] = key
    THEN [i \in 1..Len(d) |-> IF d[i][1] = key THEN <<key, value>> ELSE d[i]]
    ELSE Append(d, <<key, value>>)

\* dict(d, **items), d.update(items)
RECURSIVE dict_update(_, _)
dict_update(d, items) ==
    IF items = <<>> THEN d
    ELSE dict_update(dict_set(d, items[1][1], items[1][2]), Tail(items))

\* Writer.__init__ with the default streams and delimiters; the handler table
\* is the module's table as it is now, then the custom handlers, whose keys
\* are keyword names and so class names
Writer(a) ==
    [stream |-> "",
     error_stream |-> <<>>,
     block_start_string |-> "{%",
     block_end_string |-> "%}",
     variable_start_string |-> "{{",
     variable_end_string |-> "}}",
     comment_start_string |-> "{#",
     comment_end_string |-> "#}",
     autoescape |-> a.initial_autoescape,
     spaceless |-> FALSE,
     use_jinja_autoescape |-> a.use_jinja_autoescape,
     node_handlers |-> dict_update(dict_update(_node_handlers, registered),
                                   a.custom_node_handlers),
     _loop_depth |-> 0,
     var_re |-> a.var_re,
     env |-> a.env,
     raised |-> NotRaised]

enter_loop(w) == [w EXCEPT !._loop_depth = @ + 1]

leave_loop_skipped(w) == w

leave_loop(w) == [w EXCEPT !._loop_depth = @ - 1]

in_loop_always(w) == TRUE

in_loop(w) == w._loop_depth > 0

write(w, s) ==
    IF w.raised # NotRaised THEN w ELSE [w EXCEPT !.stream = @ \o s]

_post_open(w) == IF w.spaceless THEN write(w, "- ") ELSE write(w, " ")

_pre_close(w) == IF w.spaceless THEN write(w, " -") ELSE write(w, " ")

start_variable(w) == _post_open(write(w, w.variable_start_string))

end_variable_unescaped(w, always_safe) ==
    write(_pre_close(w), w.variable_end_string)

end_variable_safe_or_not(w, always_safe) ==
    LET w1 == IF w.autoescape /\ ~w.use_jinja_autoescape
              THEN write(w, "|e")
              ELSE w
    IN  write(_pre_close(w1), w.variable_end_string)

end_variable(w, always_safe) ==
    LET w1 == IF ~always_safe /\ w.autoescape /\ ~w.use_jinja_autoescape
              THEN write(w, "|e")
              ELSE w
    IN  write(_pre_close(w1), w.variable_end_string)

start_block(w) == _post_open(write(w, w.block_start_string))

end_block(w) == write(_pre_close(w), w.block_end_string)

tag(w, name) == end_block(write(start_block(w), name))

print_expr(w, expr) == end_variable(write(start_variable(w), expr), FALSE)

\* repr() of a str without quotes or escapes in it, then the u-prefix cut
literal(w, value) ==
    LET r == <<"'">> \o value \o <<"'">>
        v == IF SubSeq(r, 1, 2) \in {<<"u", "\"">>, <<"u", "'">>} THEN Tail(r) ELSE r
    IN  write(w, Str(v))

\* origins are already resolved: a node that has a source carries its name and line
warn(w, message, n) ==
    LET m == IF n # None /\ "source" \in DOMAIN n
             THEN "[" \o n.source.filename \o ":" \o n.source.lineno \o "] " \o message
             ELSE message
    IN  IF w.raised # NotRaised THEN w
        ELSE [w EXCEPT !.error_stream = Append(@, m)]

strip_unconditionally(w, var) == slice_from(var, 3)

strip_forloop(w, var) ==
    IF (in_loop(w) /\ var = s_forloop) \/ startswith(var, s_forloop \o c_dot)
    THEN slice_from(var, 3)
    ELSE var

RECURSIVE apply_rules(_, _)
apply_rules(rules, var) ==
    IF rules = <<>> THEN var
    ELSE LET reg == rules[1].reg
             rep == rules[1].rep
             unless == rules[1].unless
             no_unless == (unless # None /\ search(unless, var)) \/ TRUE
         IN  IF search(reg, var) /\ no_unless
             THEN sub(reg, rep, var)
             ELSE apply_rules(Tail(rules), var)

translate_variable_name(w, var) == apply_rules(w.var_re, strip_forloop(w, var))

(***************************************************************************)
(* Identifier translation on its own: a Writer built with a rule list,     *)
(* whose handlers enter and leave loops and translate identifiers.         *)
(***************************************************************************)
DefaultArgs ==
    [initial_autoescape |-> TRUE,
     use_jinja_autoescape |-> FALSE,
     custom_node_handlers |-> <<>>,
     var_re |-> <<>>,
     env |-> None]

NoConversion ==
    /\ template = <<>>
    /\ stack = <<>>
    /\ pos = 0
    /\ consumed = {}
    /\ files = <<>>

\* no handler registered after the import, no simple tag resolved
NoTagLookup ==
    /\ registered = <<>>
    /\ _resolved_simple_tags = None
    /\ threads = <<>>

InitVar ==
    /\ NoTagLookup
    /\ args \in {[DefaultArgs EXCEPT !.var_re = rules] : rules \in RuleLists}
    /\ writer = Writer(args)
    /\ calls = <<>>
    /\ condition = None
    /\ bits = <<>>
    /\ NoConversion

VarEnterLoop ==
    /\ writer._loop_depth < MaxLoopDepth
    /\ writer' = enter_loop(writer)
    /\ calls' = <<>>
    /\ UNCHANGED <<template, args, stack, pos, consumed, files, condition, bits, registered, _resolved_simple_tags, threads>>

VarLeaveLoop ==
    /\ writer._loop_depth > 0
    /\ writer' = leave_loop(writer)
    /\ calls' = <<>>
    /\ UNCHANGED <<template, args, stack, pos, consumed, files, condition, bits, registered, _resolved_simple_tags, threads>>

TranslateName ==
    /\ calls = <<>>
    /\ \E name \in Names :
          calls' = <<[var |-> name, result |-> translate_variable_name(writer, name)]>>
    /\ UNCHANGED <<writer, template, args, stack, pos, consumed, files, condition, bits, registered, _resolved_simple_tags, threads>>

\* the identifier just returned is translated once more
TranslateAgain ==
    /\ calls # <<>>
    /\ Len(calls) < MaxCalls
    /\ LET prev == calls[Len(calls)].result
       IN  calls' = Append(calls, [var |-> prev, result |-> translate_variable_name(writer, prev)])
    /\ UNCHANGED <<writer, template, args, stack, pos, consumed, files, condition, bits, registered, _resolved_simple_tags, threads>>

NextVar == VarEnterLoop \/ VarLeaveLoop \/ TranslateName \/ TranslateAgain

SpecVar == InitVar /\ [][NextVar]_vars

\* the rule application the documentation describes: the first rule whose
\* match pattern hits and whose exclusion pattern, if any, does not
RECURSIVE first_unexcluded_rule(_, _)
first_unexcluded_rule(rules, var) ==
    IF rules = <<>> THEN var
    ELSE IF /\ search(rules[1].reg, var)
            /\ (rules[1].unless = None \/ ~search(rules[1].unless, var))
         THEN sub(rules[1].reg, rules[1].rep, var)
         ELSE first_unexcluded_rule(Tail(rules), var)

\* C1: every translation applies exactly the first rule whose match pattern
\* hits the name and whose exclusion pattern, if present, does not hit it; a
\* rule whose exclusion pattern hits is skipped, and no later rule is applied
\* after one has substituted.
C1_FirstUnexcludedRuleWins ==
    \A i \in 1..Len(calls) :
        calls[i].result =
            first_unexcluded_rule(writer.var_re, strip_forloop(writer, calls[i].var))

\* C2: with an empty rule list the loop-context prefix is stripped inside a
\* loop body only: at loop depth 0 every name, 'forloop' and 'forloop.<attr>'
\* included, comes back unchanged; inside a loop 'forloop' and
\* 'forloop.<attr>' lose their first three characters.
C2_StripOnlyInsideLoop ==
    \A i \in 1..Len(calls) :
        LET var == calls[i].var
            is_loop_context == var = s_forloop \/ startswith(var, s_forloop \o c_dot)
        IN  writer.var_re = <<>> =>
                calls[i].result =
                    IF writer._loop_depth > 0 /\ is_loop_context
                    THEN slice_from(var, 3)
                    ELSE var

NoReplacementHitsEarlierPattern(rules) ==
    \A i, j \in 1..Len(rules) : j < i => ~search(rules[j].reg, rules[i].rep)

\* C10 as stated: under a rule list in which no rule's replacement text
\* matches an earlier rule's pattern, translating an already-translated
\* identifier again at the same loop depth returns it unchanged.
C10_Idempotent ==
    NoReplacementHitsEarlierPattern(writer.var_re) =>
        \A k \in 2..Len(calls) : calls[k].result = calls[k - 1].result

\* no rule's match pattern hits y, and y is not a loop-context name
Settled(w, y) ==
    /\ \A r \in 1..Len(w.var_re) : ~search(w.var_re[r].reg, y)
    /\ ~startswith(y, s_forloop \o c_dot)
    /\ ~(w._loop_depth > 0 /\ y = s_forloop)

\* C10 as amended: translating an already-translated identifier again at the
\* same loop depth returns it unchanged whenever no rule's match pattern
\* hits it any more and it no longer carries the loop-context prefix.
C10_IdempotentOnceSettled ==
    \A k \in 2..Len(calls) :
        Settled(writer, calls[k - 1].result) => calls[k].result = calls[k - 1].result

\* a rule rewrote the name, the result is settled, and it was translated again
C10_Witness ==
    /\ Len(calls) >= 2
    /\ writer.var_re # <<>>
    /\ calls[1].result # calls[1].var
    /\ Settled(writer, calls[1].result)

(***************************************************************************)
(* Expression nodes, as Django's parser builds them.                       *)
(***************************************************************************)
IsQuoted(tok) ==
    /\ Len(tok) >= 2
    /\ tok[1] \in {"\"", "'"}
    /\ tok[Len(tok)] = tok[1]

\* django.template.base.Variable: a quoted token is a string literal,
\* anything else a lookup
Variable(tok) ==
    [type |-> "Variable",
     var |-> tok,
     literal |-> IF IsQuoted(tok) THEN SubSeq(tok, 2, Len(tok) - 1) ELSE None,
     translate |-> FALSE]

FilterExpression(tok, fs) ==
    [type |-> "FilterExpression", var |-> Variable(tok), filters |-> fs]

(***************************************************************************)
(* The condition trees of django.template.smartif and their               *)
(* linearization.                                                          *)
(***************************************************************************)
Literal(value) == [type |-> "Literal", value |-> value]

infix(id, first, second) ==
    [type |-> "Operator", id |-> id, first |-> first, second |-> second]

prefix(id, first) ==
    [type |-> "Operator", id |-> id, first |-> first, second |-> None]

lit_A == Literal(FilterExpression(<<"A">>, <<>>))
lit_B == Literal(FilterExpression(<<"B">>, <<>>))

InfixIds == {"and", "or"}

RECURSIVE Conditions(_)
Conditions(h) ==
    IF h = 0 THEN {lit_A, lit_B}
    ELSE LET below == Conditions(h - 1)
         IN  below
             \cup {infix(id, f, s) : id \in InfixIds, f \in below, s \in below}
             \cup {prefix("not", f) : f \in below}

reverse(s) == [i \in 1..Len(s) |-> s[Len(s) + 1 - i]]

RECURSIVE _if_condition_to_bits_backwards(_)
_if_condition_to_bits_backwards(c) ==
    IF c.type = "Literal" THEN <<c.value>>
    ELSE (IF c.second # None THEN _if_condition_to_bits_backwards(c.second) ELSE <<>>)
         \o (IF c.id = "not"
             THEN _if_condition_to_bits_backwards(c.first) \o <<c>>
             ELSE <<c>> \o _if_condition_to_bits_backwards(c.first))

bits_not_reversed(c) == _if_condition_to_bits_backwards(c)

if_condition_to_bits(c) == reverse(_if_condition_to_bits_backwards(c))

InitBits ==
    /\ NoTagLookup
    /\ condition \in Conditions(MaxCondDepth)
    /\ bits = <<>>
    /\ args = DefaultArgs
    /\ writer = Writer(args)
    /\ calls = <<>>
    /\ NoConversion

Linearize ==
    /\ bits = <<>>
    /\ bits' = if_condition_to_bits(condition)
    /\ UNCHANGED <<writer, template, args, stack, pos, consumed, files, calls, condition, registered, _resolved_simple_tags, threads>>

NextBits == Linearize

SpecBits == InitBits /\ [][NextBits]_vars

\* the in-order reading of a condition tree
RECURSIVE InOrder(_)
InOrder(c) ==
    IF c.type = "Literal" THEN <<c.value>>
    ELSE IF c.second = None THEN <<c>> \o InOrder(c.first)
    ELSE InOrder(c.first) \o <<c>> \o InOrder(c.second)

RECURSIVE NodeCount(_)
NodeCount(c) ==
    IF c.type = "Literal" THEN 1
    ELSE IF c.second = None THEN 1 + NodeCount(c.first)
    ELSE 1 + NodeCount(c.first) + NodeCount(c.second)

\* what the condition handler writes for a bit: an operator's symbol, a
\* literal's identifier
BitText(b) == IF b.type = "Operator" THEN b.id ELSE Str(b.var.var)

A_and_not_B == infix("and", lit_A, prefix("not", lit_B))

\* C4: if_condition_to_bits returns the in-order reading of the tree, one bit
\* per node: first operand, operator, second operand for an infix node;
\* operator, operand for a prefix 'not'; 'A and not B' reads A, and, not, B.
C4_InOrderOneBitPerNode ==
    bits # <<>> =>
        /\ bits = InOrder(condition)
        /\ Len(bits) = NodeCount(condition)
        /\ condition = A_and_not_B =>
              [i \in 1..Len(bits) |-> BitText(bits[i])] = <<"A", "and", "not", "B">>

C4_Witness ==
    /\ condition = A_and_not_B
    /\ bits # <<>>

(***************************************************************************)
(* Writer.node and the handlers that return without calling Writer.body.   *)
(***************************************************************************)
\* type(node): a node carries its class's __name__; the classes stand under
\* their names, except the operator classes of smartif, which are all named
\* Operator and stand under OPERATORS[id]
type_of(n) ==
    IF n.type = "Operator" THEN "OPERATORS['" \o n.id \o "']" ELSE n.type

\* the handler Writer.node picks: the first entry, in table order, whose key
\* is the node's class or the node's class name
handler_for(w, n) ==
    LET h == w.node_handlers
        hits == {i \in 1..Len(h) : h[i][1] = <<"type", type_of(n)>> \/ h[i][1] = <<"str", n.type>>}
    IN  IF hits = {} THEN NoHandler
        ELSE h[CHOOSE i \in hits : \A j \in hits : i <= j][2]

\* node.__module__ of the node classes the handler table does not know
module_of(n) == "django.template.defaulttags"

raise(w, exception) ==
    IF w.raised # NotRaised THEN w ELSE [w EXCEPT !.raised = exception]

\* getattr(filter, '_filter_name', None), as <<name>> or None
get_filter_name(filter) ==
    IF "_filter_name" \in DOMAIN filter THEN <<filter._filter_name>> ELSE None

RECURSIVE Writer_node(_, _)

text_node(w, n) == write(w, Str(n.s))

Writer_variable(w, name) == write(w, Str(translate_variable_name(w, name)))

variable(w, n) ==
    LET w1 == IF n.translate
              THEN write(warn(w, "i18n system used, make sure to install translations", n), "_(")
              ELSE w
        w2 == IF n.literal # None THEN literal(w1, n.literal) ELSE Writer_variable(w1, n.var)
    IN  IF n.translate THEN write(w2, ")") ELSE w2

RECURSIVE filter_args(_, _, _)
filter_args(w, fargs, idx) ==
    IF idx > Len(fargs) THEN w
    ELSE LET w1 == IF idx > 1 THEN write(w, ", ") ELSE w
             is_var == fargs[idx][1]
             value == fargs[idx][2]
         IN  filter_args(IF is_var THEN Writer_node(w1, value) ELSE literal(w1, value),
                         fargs, idx + 1)

RECURSIVE filters_from(_, _, _)
filters_from(w, fs, want_pipe) ==
    IF fs = <<>> THEN w
    ELSE LET name == get_filter_name(fs[1][1])
             fargs == fs[1][2]
         IN  IF name = None
             THEN filters_from(warn(w, "Could not find filter None", None), Tail(fs), want_pipe)
             ELSE IF w.env = None
             THEN raise(w, "AttributeError")
             ELSE LET w1 == IF name[1] \notin w.env.filters
                            THEN warn(w, "Filter " \o name[1] \o " probably doesn't exist in Jinja", None)
                            ELSE w
                      w2 == IF want_pipe THEN write(w1, "|") ELSE w1
                      w3 == write(w2, name[1])
                      w4 == IF fargs # <<>>
                            THEN write(filter_args(write(w3, "("), fargs, 1), ")")
                            ELSE w3
                  IN  filters_from(w4, Tail(fs), TRUE)

filters(w, fs, is_block) == filters_from(w, fs, ~is_block)

filter_expression(w, n) ==
    LET w1 == IF n.var.type = "SafeString"
              THEN literal(w, n.var.s)
              ELSE Writer_node(w, n.var)
    IN  filters(w1, n.filters, FALSE)

variable_node(w, n) ==
    LET w1 == start_variable(w)
        w2 == IF n.filter_expression.var.var = s_block \o c_dot \o s_super
                 /\ n.filter_expression.filters = <<>>
              THEN write(w1, "super()")
              ELSE Writer_node(w1, n.filter_expression)
    IN  end_variable(w2, FALSE)

operator(w, n) == write(w, n.id)

\* a Python int
int_object(value) == [type |-> "int", value |-> value]

\* int(x) returns for an int and raises TypeError for an object without
\* __int__, __index__ or __trunc__, which the expression nodes are
int_raises(x) == x.type # "int"

width_ratio(w, n) ==
    LET w1 == warn(w, "widthratio expanded into formula.  You may want to provide "
                      \o "a helper function for this calculation", n)
        w2 == Writer_node(write(start_variable(w1), "("), n.val_expr)
        w3 == write(Writer_node(write(w2, " / "), n.max_expr), " * ")
    IN  IF int_raises(n.max_width) THEN raise(w3, "TypeError")
        ELSE end_variable(write(write(w3, ToString(n.max_width.value)), ")|round|int"), TRUE)

\* handlers of the caller's own, each writing a mark of its own
CustomHandlers == {"custom_not", "custom_text", "custom_firstof"}

custom(w, handler, n) == write(w, "<" \o handler \o ">")

untranslatable_aborts(w, n) ==
    raise(warn(w, "Untranslatable node " \o module_of(n) \o "." \o n.type \o " found", n),
          "TypeError")

untranslatable(w, n) ==
    warn(w, "Untranslatable node " \o module_of(n) \o "." \o n.type \o " found", n)

Writer_node(w, n) ==
    LET handler == handler_for(w, n)
    IN  CASE handler = "text_node" -> text_node(w, n)
          [] handler = "variable" -> variable(w, n)
          [] handler = "variable_node" -> variable_node(w, n)
          [] handler = "filter_expression" -> filter_expression(w, n)
          [] handler = "operator" -> operator(w, n)
          [] handler = "width_ratio" -> width_ratio(w, n)
          [] handler \in CustomHandlers -> custom(w, handler, n)
          [] handler = NoHandler -> untranslatable(w, n)

(***************************************************************************)
(* The parts of the block handlers before and after their Writer.body      *)
(* calls.                                                                  *)
(***************************************************************************)
RECURSIVE for_loopvars(_, _, _)
for_loopvars(w, loopvars, idx) ==
    IF idx > Len(loopvars) THEN w
    ELSE for_loopvars(Writer_variable(IF idx > 1 THEN write(w, ", ") ELSE w, loopvars[idx]),
                      loopvars, idx + 1)

\* for_loop up to and including enter_loop
for_loop_head(w, n) ==
    LET w1 == for_loopvars(write(start_block(w), "for "), n.loopvars, 1)
        w2 == write(w1, " in ")
        w3 == IF n.is_reversed THEN write(w2, "(") ELSE w2
        w4 == Writer_node(w3, n.sequence)
        w5 == IF n.is_reversed THEN write(w4, ")|reverse") ELSE w4
    IN  enter_loop(end_block(w5))

RECURSIVE cycle_vars(_, _, _)
cycle_vars(w, raw, idx) ==
    IF idx > Len(raw) THEN w
    ELSE cycle_vars(Writer_node(IF idx > 1 THEN write(w, ", ") ELSE w, raw[idx]),
                    raw, idx + 1)

\* raw is what iterating node.raw_cycle_vars yields at this moment
cycle(w, n, raw) ==
    IF ~in_loop(w)
    THEN warn(w, "Untranslatable free cycle (cycle outside loop)", n)
    ELSE LET w1 == IF n.variable_name # None
                   THEN write(start_block(w), "set " \o Str(n.variable_name) \o " = ")
                   ELSE start_variable(w)
             w2 == cycle_vars(write(w1, "loop.cycle("), raw, 1)
             w3 == write(w2, ")")
         IN  IF n.variable_name # None THEN end_block(w3) ELSE end_variable(w3, FALSE)

RECURSIVE if_bits(_, _, _)
if_bits(w, condition_bits, idx) ==
    IF idx > Len(condition_bits) THEN w
    ELSE if_bits(Writer_node(write(w, " "), condition_bits[idx]), condition_bits, idx + 1)

if_branch_head_never_else(w, x, c) ==
    LET w1 == write(start_block(w), IF x = 0 THEN "if" ELSE "elif")
        w2 == IF c # None THEN if_bits(w1, if_condition_to_bits(c), 1) ELSE w1
    IN  end_block(w2)

\* if_condition: the opening tag of branch x (counted from 0), up to the
\* Writer.body call for the branch; a condition object is always true
if_branch_head(w, x, c) ==
    LET w1 == write(start_block(w),
                    IF x = 0 THEN "if" ELSE IF c = None THEN "else" ELSE "elif")
        w2 == IF c # None THEN if_bits(w1, if_condition_to_bits(c), 1) ELSE w1
    IN  end_block(w2)

\* autoescape_control before and after its Writer.body call
autoescape_control_enter(w, n) == [w EXCEPT !.autoescape = n.setting]

autoescape_not_restored(w, original) == w

autoescape_control_leave(w, original) == [w EXCEPT !.autoescape = original]

\* spaceless before and after its Writer.body call
spaceless_enter(w, n) ==
    warn([w EXCEPT !.spaceless = TRUE], "entering spaceless mode with different semantics", n)

spaceless_leave(w, original) == [w EXCEPT !.spaceless = original]

\* spaceless: the initial stripping of a copy of the node list
spaceless_nodelist(nodelist) ==
    LET first_stripped ==
            IF nodelist # <<>> /\ nodelist[1].type = "TextNode"
            THEN [nodelist EXCEPT ![1] = [type |-> "TextNode", s |-> lstrip(nodelist[1].s)]]
            ELSE nodelist
        last == Len(nodelist)
    IN  IF nodelist # <<>> /\ first_stripped[last].type = "TextNode"
        THEN [first_stripped EXCEPT ![last] = [type |-> "TextNode", s |-> rstrip(first_stripped[last].s)]]
        ELSE first_stripped

(***************************************************************************)
(* Templates: the node lists Django's parser hands over.                   *)
(***************************************************************************)
TextNode(s) == [type |-> "TextNode", s |-> s]

VariableNode(tok) ==
    [type |-> "VariableNode", filter_expression |-> FilterExpression(tok, <<>>)]

\* {{ tok|filter|... }}: fs holds a (filter function, arguments) pair per filter
FilteredVariable(tok, fs) ==
    [type |-> "VariableNode", filter_expression |-> FilterExpression(tok, fs)]

ForNode(loopvars, sequence, is_reversed, nodelist_loop, nodelist_empty) ==
    [type |-> "ForNode",
     loopvars |-> loopvars,
     sequence |-> FilterExpression(sequence, <<>>),
     is_reversed |-> is_reversed,
     nodelist_loop |-> nodelist_loop,
     nodelist_empty |-> nodelist_empty]

\* CycleNode.__init__ as patched: the constructor arguments stay on the node
CycleNode(cyclevars, variable_name) ==
    [type |-> "CycleNode", cyclevars |-> cyclevars, variable_name |-> variable_name]

AutoEscapeControlNode(setting, nodelist) ==
    [type |-> "AutoEscapeControlNode", setting |-> setting, nodelist |-> nodelist]

SpacelessNode(nodelist) == [type |-> "SpacelessNode", nodelist |-> nodelist]

\* core_tags.IfNode: a (condition, nodelist) pair per branch, the condition
\* of an else branch being None
IfNode(conditions_nodelists) ==
    [type |-> "IfNode", conditions_nodelists |-> conditions_nodelists]

\* {% widthratio val_expr max_expr max_width %}
WidthRatioNode(val_expr, max_expr, max_width) ==
    [type |-> "WidthRatioNode",
     val_expr |-> FilterExpression(val_expr, <<>>),
     max_expr |-> FilterExpression(max_expr, <<>>),
     max_width |-> max_width]

\* {% firstof %}: a node class of the default tag library without a handler
FirstOfNode == [type |-> "FirstOfNode"]

\* {% now %}: a node class of the default tag library without a handler
NowNode == [type |-> "NowNode"]

t_a == <<" ", "a", " ">>
t_b == <<"b">>
q_a == <<"\"", "a", "\"">>
q_b == <<"\"", "b", "\"">>
item_name == s_item \o c_dot \o s_name

cycle_a_b == CycleNode(<<q_a, q_b>>, None)

Leaves == {TextNode(t_a), VariableNode(item_name), cycle_a_b, NowNode}

Block(kind, nodelist) ==
    CASE kind = "for" -> ForNode(<<s_item>>, s_items, FALSE, nodelist, <<>>)
      [] kind = "autoescape off" -> AutoEscapeControlNode(FALSE, nodelist)
      [] kind = "spaceless" -> SpacelessNode(nodelist)

BlockKinds == {"for", "autoescape off", "spaceless"}

\* the node lists of exactly n nodes, and the single nodes with n nodes in all
RECURSIVE Forests(_), Trees(_)
Forests(n) ==
    IF n = 0 THEN {<<>>}
    ELSE UNION {{<<t>> \o rest : t \in Trees(k), rest \in Forests(n - k)} : k \in 1..n}

Trees(n) ==
    {Block(kind, nodelist) : kind \in BlockKinds, nodelist \in Forests(n - 1)}
    \cup (IF n = 1 THEN Leaves ELSE {})

\* a reversed loop over two variables with an empty clause and a cycle that
\* assigns; text around a node without a handler; autoescape regions of both
\* settings, one in the other, with variables in and after them
Scenarios ==
    { <<ForNode(<<s_item, s_name>>, s_items, TRUE,
                <<CycleNode(<<q_a, s_item>>, s_name)>>, <<TextNode(t_b)>>)>>,
      <<TextNode(t_a), NowNode, TextNode(t_b)>>,
      <<AutoEscapeControlNode(FALSE,
            <<VariableNode(item_name),
              AutoEscapeControlNode(TRUE, <<SpacelessNode(<<VariableNode(item_name)>>)>>),
              VariableNode(item_name)>>),
        VariableNode(item_name)>> }

\* filter functions: Library.filter stores the registered name on the
\* function as _filter_name; a callable it never saw has no such attribute
f_upper == [_filter_name |-> "upper"]
f_title == [_filter_name |-> "title"]
f_unnamed == [__name__ |-> "shout"]

UpperOnly == <<FilteredVariable(item_name, << <<f_upper, <<>>>> >>)>>

UnnamedOnly == <<FilteredVariable(item_name, << <<f_unnamed, <<>>>> >>)>>

\* {{ item.name|shout|title:"b"|upper }}
UnnamedTitleUpper ==
    <<FilteredVariable(item_name,
        << <<f_unnamed, <<>>>>, <<f_title, <<<<FALSE, t_b>>>>>>, <<f_upper, <<>>>> >>)>>

FilterScenarios == {UpperOnly, UnnamedOnly, UnnamedTitleUpper}

\* a variable in an autoescape-off region, the same variable after the
\* region, and a width ratio of a node built with an int as its max_width
EscapeOffThenOn ==
    <<AutoEscapeControlNode(FALSE, <<VariableNode(item_name)>>),
      VariableNode(item_name),
      WidthRatioNode(s_item, s_items, int_object(100))>>

\* the width ratio as Django's parser builds it: max_width is compiled to a
\* FilterExpression like the other two
ParsedWidthRatio ==
    <<WidthRatioNode(s_item, s_items, FilterExpression(<<"1", "0", "0">>, <<>>))>>

EscapeScenarios == {EscapeOffThenOn, ParsedWidthRatio}

t_X == <<"X">>
t_Y == <<"Y">>

\* {% if A %}X{% else %}Y{% endif %}
IfElse == <<IfNode(<< <<lit_A, <<TextNode(t_X)>>>>, <<None, <<TextNode(t_Y)>>>> >>)>>

\* {% if A and not B %}X{% elif B %}{{ item.name }}{% else %}Y{% endif %}
IfElifElse ==
    <<IfNode(<< <<infix("and", lit_A, prefix("not", lit_B)), <<TextNode(t_X)>>>>,
                <<lit_B, <<VariableNode(item_name)>>>>,
                <<None, <<TextNode(t_Y)>>>> >>)>>

\* {% if A %}{% if not B %}X{% endif %}{% elif B %}{% endif %}Y
IfInIf ==
    <<IfNode(<< <<lit_A, <<IfNode(<< <<prefix("not", lit_B), <<TextNode(t_X)>>>> >>)>>>>,
                <<lit_B, <<>>>> >>),
      TextNode(t_Y)>>

IfScenarios == {IfElse, IfElifElse, IfInIf}

Templates ==
    UNION {Forests(n) : n \in 1..MaxNodes}
    \cup Scenarios \cup FilterScenarios \cup EscapeScenarios \cup IfScenarios

ArgSets ==
    {[DefaultArgs EXCEPT !.initial_autoescape = a, !.use_jinja_autoescape = j] :
        a \in BOOLEAN, j \in BOOLEAN}

\* {% if not B %}X{% endif %}
IfNotB == <<IfNode(<< <<prefix("not", lit_B), <<TextNode(t_X)>>>> >>)>>

TextAndFirstOf == <<TextNode(t_a), FirstOfNode>>

\* @node(OPERATORS['not']) after the import: the class of the not operator
\* becomes a key of the module's table behind the class name 'Operator'
RegisteredNot == << <<<<"type", "OPERATORS['not']">>, "custom_not">> >>

\* custom_node_handlers={'TextNode': ..., 'FirstOfNode': ...}: the class
\* names become keys behind every key of the module's table
CustomArgs ==
    [DefaultArgs EXCEPT !.custom_node_handlers =
        << <<<<"str", "TextNode">>, "custom_text">>,
           <<<<"str", "FirstOfNode">>, "custom_firstof">> >>]

HandlerInputs ==
    {<<IfNotB, DefaultArgs, RegisteredNot>>, <<TextAndFirstOf, CustomArgs, <<>>>>}

\* a jinja2 Environment that knows the upper filter
jinja_env == [filters |-> {"upper"}, globals |-> {}]

EnvArgSets == {[DefaultArgs EXCEPT !.env = jinja_env]}

\* the conversions looked at: a template, the arguments of its Writers and
\* the handlers registered since the import
Inputs ==
    {<<t, a, <<>>>> : t \in Templates, a \in ArgSets}
    \cup {<<t, a, <<>>>> : t \in FilterScenarios, a \in EnvArgSets}
    \cup HandlerInputs

(***************************************************************************)
(* The conversion.  stack holds, innermost last, the Writer.body loops in  *)
(* progress (with the nodes they have still to hand to Writer.node) and    *)
(* the block handlers waiting for a Writer.body call to return.            *)
(***************************************************************************)
Init ==
    /\ \E input \in Inputs :
          /\ template = input[1]
          /\ args = input[2]
          /\ registered = input[3]
    /\ _resolved_simple_tags = None
    /\ threads = <<>>
    /\ writer = Writer(args)
    /\ stack = <<>>
    /\ pos = 0
    /\ consumed = {}
    /\ files = <<>>
    /\ calls = <<>>
    /\ condition = None
    /\ bits = <<>>

body(nodes) == [fn |-> "body", nodes |-> nodes]

Top == stack[Len(stack)]

\* Writer.body is about to hand its next node to Writer.node
Dispatching ==
    /\ writer.raised = NotRaised
    /\ stack # <<>>
    /\ Top.fn = "body"
    /\ Top.nodes # <<>>

Current == Head(Top.nodes)

\* the innermost Writer.body loop has run out of nodes and returns to caller
Returning(caller) ==
    /\ writer.raised = NotRaised
    /\ Len(stack) >= 2
    /\ Top.fn = "body"
    /\ Top.nodes = <<>>
    /\ stack[Len(stack) - 1].fn = caller

Caller == stack[Len(stack) - 1]

\* the stack once the node being dispatched has been taken off its list
Advanced == [stack EXCEPT ![Len(stack)].nodes = Tail(@)]

Popped(n) == SubSeq(stack, 1, Len(stack) - n)

\* what iterating the map object stored on the node now at hand yields
raw_cycle_vars(n) ==
    IF pos \in consumed THEN <<>>
    ELSE [i \in 1..Len(n.cyclevars) |-> Variable(n.cyclevars[i])]

\* convert_templates.translate: the stream is the new file, then Writer.body.
\* The Writer is the one that did the previous conversion or a new one, which
\* prints its warnings to the same sys.stderr.
Convert ==
    /\ writer.raised = NotRaised
    /\ stack = <<>>
    /\ Len(files) < MaxRuns
    /\ \E w \in {writer, [Writer(args) EXCEPT !.error_stream = writer.error_stream]} :
          writer' = [w EXCEPT !.stream = ""]
    /\ stack' = <<body(template)>>
    /\ pos' = 0
    /\ UNCHANGED <<template, args, consumed, files, calls, condition, bits, registered, _resolved_simple_tags, threads>>

\* Writer.node on a node whose handler does not call Writer.body
Leaf ==
    /\ Dispatching
    /\ handler_for(writer, Current) \in {"text_node", "variable_node", "width_ratio"}
    /\ writer' = Writer_node(writer, Current)
    /\ stack' = Advanced
    /\ pos' = pos + 1
    /\ UNCHANGED <<template, args, consumed, files, calls, condition, bits, registered, _resolved_simple_tags, threads>>

\* Writer.node on a node that a handler of the caller's is picked for
Custom ==
    /\ Dispatching
    /\ handler_for(writer, Current) \in CustomHandlers
    /\ writer' = Writer_node(writer, Current)
    /\ stack' = Advanced
    /\ pos' = pos + 1
    /\ UNCHANGED <<template, args, consumed, files, calls, condition, bits, registered, _resolved_simple_tags, threads>>

\* Writer.node on a node no key of the handler table matches
Untranslatable ==
    /\ Dispatching
    /\ handler_for(writer, Current) = NoHandler
    /\ writer' = Writer_node(writer, Current)
    /\ stack' = Advanced
    /\ pos' = pos + 1
    /\ UNCHANGED <<template, args, consumed, files, calls, condition, bits, registered, _resolved_simple_tags, threads>>

Cycle ==
    /\ Dispatching
    /\ handler_for(writer, Current) = "cycle"
    /\ writer' = cycle(writer, Current, raw_cycle_vars(Current))
    /\ consumed' = IF in_loop(writer) THEN consumed \cup {pos} ELSE consumed
    /\ stack' = Advanced
    /\ pos' = pos + 1
    /\ UNCHANGED <<template, args, files, calls, condition, bits, registered, _resolved_simple_tags, threads>>

ForLoopEnter ==
    /\ Dispatching
    /\ handler_for(writer, Current) = "for_loop"
    /\ writer' = for_loop_head(writer, Current)
    /\ stack' = Advanced \o <<[fn |-> "for_loop", node |-> Current, in |-> "nodelist_loop"],
                              body(Current.nodelist_loop)>>
    /\ pos' = pos + 1
    /\ UNCHANGED <<template, args, consumed, files, calls, condition, bits, registered, _resolved_simple_tags, threads>>

\* for_loop after the loop body: leave_loop, then the empty clause or endfor
ForLoopLeave ==
    /\ Returning("for_loop")
    /\ Caller.in = "nodelist_loop"
    /\ IF Caller.node.nodelist_empty # <<>>
       THEN /\ writer' = tag(leave_loop(writer), "else")
            /\ stack' = Popped(2) \o <<[Caller EXCEPT !.in = "nodelist_empty"],
                                       body(Caller.node.nodelist_empty)>>
       ELSE /\ writer' = tag(leave_loop(writer), "endfor")
            /\ stack' = Popped(2)
    /\ UNCHANGED <<template, args, pos, consumed, files, calls, condition, bits, registered, _resolved_simple_tags, threads>>

ForLoopEnd ==
    /\ Returning("for_loop")
    /\ Caller.in = "nodelist_empty"
    /\ writer' = tag(writer, "endfor")
    /\ stack' = Popped(2)
    /\ UNCHANGED <<template, args, pos, consumed, files, calls, condition, bits, registered, _resolved_simple_tags, threads>>

\* if_condition up to the Writer.body call for the first branch
IfEnter ==
    /\ Dispatching
    /\ handler_for(writer, Current) = "if_condition"
    /\ writer' = if_branch_head(writer, 0, Current.conditions_nodelists[1][1])
    /\ stack' = Advanced \o <<[fn |-> "if_condition", node |-> Current, x |-> 0],
                              body(Current.conditions_nodelists[1][2])>>
    /\ pos' = pos + 1
    /\ UNCHANGED <<template, args, consumed, files, calls, condition, bits, registered, _resolved_simple_tags, threads>>

\* the loop of if_condition turns to the next branch
IfNextBranch ==
    /\ Returning("if_condition")
    /\ Caller.x + 1 < Len(Caller.node.conditions_nodelists)
    /\ LET x == Caller.x + 1
           branch == Caller.node.conditions_nodelists[x + 1]
       IN  /\ writer' = if_branch_head(writer, x, branch[1])
           /\ stack' = Popped(2) \o <<[Caller EXCEPT !.x = x], body(branch[2])>>
    /\ UNCHANGED <<template, args, pos, consumed, files, calls, condition, bits, registered, _resolved_simple_tags, threads>>

\* the loop of if_condition is through: the closing tag
IfEnd ==
    /\ Returning("if_condition")
    /\ Caller.x + 1 = Len(Caller.node.conditions_nodelists)
    /\ writer' = tag(writer, "endif")
    /\ stack' = Popped(2)
    /\ UNCHANGED <<template, args, pos, consumed, files, calls, condition, bits, registered, _resolved_simple_tags, threads>>

AutoescapeEnter ==
    /\ Dispatching
    /\ handler_for(writer, Current) = "autoescape_control"
    /\ writer' = autoescape_control_enter(writer, Current)
    /\ stack' = Advanced \o <<[fn |-> "autoescape_control", node |-> Current,
                               original |-> writer.autoescape],
                              body(Current.nodelist)>>
    /\ pos' = pos + 1
    /\ UNCHANGED <<template, args, consumed, files, calls, condition, bits, registered, _resolved_simple_tags, threads>>

AutoescapeLeave ==
    /\ Returning("autoescape_control")
    /\ writer' = autoescape_control_leave(writer, Caller.original)
    /\ stack' = Popped(2)
    /\ UNCHANGED <<template, args, pos, consumed, files, calls, condition, bits, registered, _resolved_simple_tags, threads>>

SpacelessEnter ==
    /\ Dispatching
    /\ handler_for(writer, Current) = "spaceless"
    /\ writer' = spaceless_enter(writer, Current)
    /\ stack' = Advanced \o <<[fn |-> "spaceless", node |-> Current,
                               original |-> writer.spaceless],
                              body(spaceless_nodelist(Current.nodelist))>>
    /\ pos' = pos + 1
    /\ UNCHANGED <<template, args, consumed, files, calls, condition, bits, registered, _resolved_simple_tags, threads>>

SpacelessLeave ==
    /\ Returning("spaceless")
    /\ writer' = spaceless_leave(writer, Caller.original)
    /\ stack' = Popped(2)
    /\ UNCHANGED <<template, args, pos, consumed, files, calls, condition, bits, registered, _resolved_simple_tags, threads>>

\* Writer.body returns to translate: the stream is put back, the file closed
Finish ==
    /\ writer.raised = NotRaised
    /\ Len(stack) = 1
    /\ Top.fn = "body"
    /\ Top.nodes = <<>>
    /\ files' = Append(files, writer.stream)
    /\ writer' = [writer EXCEPT !.stream = ""]
    /\ stack' = <<>>
    /\ UNCHANGED <<template, args, pos, consumed, calls, condition, bits, registered, _resolved_simple_tags, threads>>

\* an exception leaves Writer.body and every handler waiting on it; translate
\* does not put the stream back, convert_templates closes the file in its
\* finally clause and lets the exception go on to its caller
Propagate ==
    /\ writer.raised # NotRaised
    /\ stack # <<>>
    /\ files' = Append(files, writer.stream)
    /\ stack' = <<>>
    /\ UNCHANGED <<writer, template, args, pos, consumed, calls, condition, bits, registered, _resolved_simple_tags, threads>>

Next ==
    \/ Convert
    \/ Leaf
    \/ Custom
    \/ Untranslatable
    \/ Cycle
    \/ ForLoopEnter
    \/ ForLoopLeave
    \/ ForLoopEnd
    \/ IfEnter
    \/ IfNextBranch
    \/ IfEnd
    \/ AutoescapeEnter
    \/ AutoescapeLeave
    \/ SpacelessEnter
    \/ SpacelessLeave
    \/ Finish
    \/ Propagate

Spec == Init /\ [][Next]_vars

(***************************************************************************)
(* Properties of the conversion.                                           *)
(***************************************************************************)
RECURSIVE TextOf(_)
TextOf(nodes) ==
    IF nodes = <<>> THEN ""
    ELSE (IF nodes[1].type = "TextNode" THEN Str(nodes[1].s) ELSE "") \o TextOf(Tail(nodes))

NowWarning == "Untranslatable node django.template.defaulttags.NowNode found"

TextAndUnknownOnly == \A i \in 1..Len(template) : template[i].type \in {"TextNode", "NowNode"}

UnknownCount == Cardinality({i \in 1..Len(template) : template[i].type = "NowNode"})

\* a node list of text nodes and nodes without a handler comes out as the
\* text nodes' contents in document order, with one warning per unknown node
UnknownNodesLeaveNoTrace ==
    (TextAndUnknownOnly /\ stack = <<>>) =>
        /\ \A r \in 1..Len(files) : files[r] = TextOf(template)
        /\ writer.error_stream = [i \in 1..Len(files) * UnknownCount |-> NowWarning]

\* Writer.node on a node without a handler prints the one warning, leaves
\* the output and the rest of the Writer alone, and Writer.body turns to the
\* following siblings
UnknownNodeStep ==
    (Dispatching /\ handler_for(writer, Current) = NoHandler) =>
        /\ writer' = [writer EXCEPT !.error_stream = Append(@, NowWarning)]
        /\ stack' = [stack EXCEPT ![Len(stack)].nodes = Tail(@)]

\* C3: a node that matches no key of the handler table makes Writer.node
\* write exactly one 'Untranslatable node <module>.<class> found' warning and
\* nothing to the output, and Writer.body goes on with the following siblings
\* in order, so the output is what the translatable siblings produce, in
\* document order.
C3_UntranslatableNodeOnlyWarns ==
    /\ []UnknownNodesLeaveNoTrace
    /\ [][UnknownNodeStep]_vars

C3_Witness ==
    /\ template = <<TextNode(t_a), NowNode, TextNode(t_b)>>
    /\ files = <<" a b">>

OpenLoopBodies ==
    Cardinality({i \in 1..Len(stack) :
                    stack[i].fn = "for_loop" /\ stack[i].in = "nodelist_loop"})

\* C5: throughout the translation of nested loop nodes the loop depth is
\* never negative and is the number of loop bodies being translated, so it
\* is back at its earlier value when a loop node is done and 0 when none is
\* open.
C5_LoopDepthBalanced ==
    /\ writer._loop_depth >= 0
    /\ writer._loop_depth = OpenLoopBodies
    /\ stack = <<>> => writer._loop_depth = 0

\* a node in the body of a loop in the body of a loop is about to be translated
C5_Witness ==
    /\ Dispatching
    /\ writer._loop_depth = 2

OpenRegions(fn) == {i \in 1..Len(stack) : stack[i].fn = fn}

EnclosingAutoescape ==
    LET open == OpenRegions("autoescape_control")
    IN  IF open = {} THEN args.initial_autoescape
        ELSE stack[CHOOSE i \in open : \A j \in open : j <= i].node.setting

\* C6: at every point the autoescape flag is the setting of the innermost
\* autoescape region still open (the initial flag when none is), and the
\* spaceless flag is on exactly inside a spaceless region; so once a region
\* has been translated both flags are what they were just before it,
\* whatever the region held, and the next sibling sees those values.
C6_FlagsScopedToRegions ==
    /\ writer.autoescape = EnclosingAutoescape
    /\ writer.spaceless = (OpenRegions("spaceless") # {})

ScopedRegions ==
    <<AutoEscapeControlNode(FALSE,
          <<VariableNode(item_name),
            AutoEscapeControlNode(TRUE, <<SpacelessNode(<<VariableNode(item_name)>>)>>),
            VariableNode(item_name)>>),
      VariableNode(item_name)>>

\* the sibling after the inner regions is about to be translated: autoescape
\* is off again, as in the outer region, and spaceless is off again
C6_Witness ==
    /\ template = ScopedRegions
    /\ args.initial_autoescape
    /\ Dispatching
    /\ pos = 5
    /\ ~writer.autoescape
    /\ ~writer.spaceless

\* C7: every conversion of the same parsed template writes the same text.
C7_RepeatedConversionsAgree ==
    \A r \in 1..Len(files) : files[r] = files[1]

EscapeToken == IF args.initial_autoescape /\ ~args.use_jinja_autoescape THEN "|e" ELSE ""

FreeCycleWarning == "Untranslatable free cycle (cycle outside loop)"

CycleOutsideAndInside == <<cycle_a_b, Block("for", <<cycle_a_b>>)>>

\* C8: translated for the first time at loop depth 1, a cycle node with the
\* raw values "a", "b" and no target is written as the printed expression
\* loop.cycle('a', 'b') (with the escape token the flags ask for); at loop
\* depth 0 it writes nothing and prints exactly one warning.
C8_CycleInsideAndOutsideLoop ==
    /\ (template = <<Block("for", <<cycle_a_b>>)>> /\ files # <<>>) =>
          files[1] = "{% for item in items %}{{ loop.cycle('a', 'b')" \o EscapeToken
                        \o " }}{% endfor %}"
    /\ (template = <<cycle_a_b>> /\ stack = <<>>) =>
          /\ \A r \in 1..Len(files) : files[r] = ""
          /\ writer.error_stream = [r \in 1..Len(files) |-> FreeCycleWarning]
    /\ (template = CycleOutsideAndInside /\ stack = <<>> /\ Len(files) = 1) =>
          /\ files[1] = "{% for item in items %}{{ loop.cycle('a', 'b')" \o EscapeToken
                           \o " }}{% endfor %}"
          /\ writer.error_stream = <<FreeCycleWarning>>

C8_Witness ==
    /\ template = CycleOutsideAndInside
    /\ stack = <<>>
    /\ Len(files) = 1

LoopOverItems == <<Block("for", <<VariableNode(item_name)>>)>>

\* C9 as stated: with the default configuration the loop over items with the
\* body {{ item.name }} is written with a space between the tags.
C9_SpacesBetweenTags ==
    (template = LoopOverItems /\ args = DefaultArgs /\ files # <<>>) =>
        files[1] = "{% for item in items %} {{ item.name|e }} {% endfor %}"

\* C9 as amended: it is written with nothing between the tags.
C9_NothingBetweenTags ==
    (template = LoopOverItems /\ args = DefaultArgs /\ files # <<>>) =>
        files[1] = "{% for item in items %}{{ item.name|e }}{% endfor %}"

C9_Witness ==
    /\ template = LoopOverItems
    /\ args = DefaultArgs
    /\ Len(files) = 1

\* C11: a Writer built without env (the default) translates a filter list
\* without raising: every filter whose name resolves is written to the
\* output and no 'probably doesn't exist' warning is printed; a filter whose
\* name does not resolve is warned about and skipped.
C11_FiltersWithoutEnv ==
    args.env = None =>
        /\ writer.raised = NotRaised
        /\ \A i \in 1..Len(writer.error_stream) :
              writer.error_stream[i] \notin
                  {"Filter " \o name \o " probably doesn't exist in Jinja" : name \in {"upper", "title"}}
        /\ (template = UpperOnly /\ files # <<>>) =>
              files[1] = "{{ item.name|upper" \o EscapeToken \o " }}"
        /\ (template = UnnamedOnly /\ stack = <<>> /\ Len(files) = 1) =>
              /\ files[1] = "{{ item.name" \o EscapeToken \o " }}"
              /\ writer.error_stream = <<"Could not find filter None">>
        /\ (template = UnnamedTitleUpper /\ files # <<>>) =>
              files[1] = "{{ item.name|title('b')|upper" \o EscapeToken \o " }}"

WidthRatioWarning ==
    "widthratio expanded into formula.  You may want to provide a helper function for this calculation"

\* C12: end_variable writes '|e' before the closing delimiter exactly when
\* use_jinja_autoescape is off, the caller did not pass always_safe and the
\* autoescape flag is on: a variable in an autoescape-off region gets none,
\* the same variable after the region gets it again if the Writer's flags
\* ask for it, a variable in an autoescape-on region gets it unless
\* use_jinja_autoescape is on, and the width ratio, closed with always_safe,
\* never gets it.
C12_EscapeTokenWhenAsked ==
    /\ (template = EscapeOffThenOn /\ files # <<>>) =>
          files[1] = "{{ item.name }}"
                        \o "{{ item.name" \o EscapeToken \o " }}"
                        \o "{{ (item / items * 100)|round|int }}"
    /\ (template = ScopedRegions /\ files # <<>>) =>
          files[1] = "{{ item.name }}"
                        \o "{{- item.name"
                        \o (IF args.use_jinja_autoescape THEN "" ELSE "|e") \o " -}}"
                        \o "{{ item.name }}"
                        \o "{{ item.name" \o EscapeToken \o " }}"

\* both variables and the width ratio are written
C12_Witness ==
    /\ template = EscapeOffThenOn
    /\ args = DefaultArgs
    /\ files = <<"{{ item.name }}{{ item.name|e }}{{ (item / items * 100)|round|int }}">>
    /\ writer.error_stream = <<WidthRatioWarning>>

\* C13: a conditional node is written branch by branch: the first branch
\* opens with 'if', a later branch without a condition with 'else', any
\* other later branch with 'elif'; the condition follows the keyword bit by
\* bit, each branch's body follows its own opening tag, and one 'endif' tag
\* closes the node.  The branches [(A, X), (None, Y)] come out as
\* {% if A %}X{% else %}Y{% endif %}.
C13_IfElifElseEndif ==
    /\ (template = IfElse /\ files # <<>>) =>
          files[1] = "{% if A %}X{% else %}Y{% endif %}"
    /\ (template = IfElifElse /\ files # <<>>) =>
          files[1] = "{% if A and not B %}X{% elif B %}{{ item.name" \o EscapeToken
                        \o " }}{% else %}Y{% endif %}"
    /\ (template = IfInIf /\ files # <<>>) =>
          files[1] = "{% if A %}{% if not B %}X{% endif %}{% elif B %}{% endif %}Y"

C13_Witness ==
    /\ template = IfElse
    /\ files = <<"{% if A %}X{% else %}Y{% endif %}", "{% if A %}X{% else %}Y{% endif %}">>
    /\ writer.error_stream = <<>>

\* the lookup the documentation describes: the entry under the node's class
\* if there is one, the entry under the class name if not
type_first_handler(w, n) ==
    LET h == w.node_handlers
        by_type == {i \in 1..Len(h) : h[i][1] = <<"type", type_of(n)>>}
        by_name == {i \in 1..Len(h) : h[i][1] = <<"str", n.type>>}
    IN  IF by_type # {} THEN h[CHOOSE i \in by_type : TRUE][2]
        ELSE IF by_name # {} THEN h[CHOOSE i \in by_name : TRUE][2]
        ELSE NoHandler

\* C14: Writer.node invokes one handler per node, the one under the node's
\* class if the table has such an entry, whatever the order of insertion,
\* and the one under the class name only if it has not: with a handler
\* registered for the class of the not operator, that handler writes the
\* operator; with custom handlers under the names TextNode and FirstOfNode,
\* text nodes still go to text_node and first-of nodes to the custom one.
C14_TypeKeyFirst ==
    /\ Dispatching => handler_for(writer, Current) = type_first_handler(writer, Current)
    /\ (template = TextAndFirstOf /\ args = CustomArgs /\ files # <<>>) =>
          files[1] = " a <custom_firstof>"
    /\ (template = IfNotB /\ registered = RegisteredNot /\ files # <<>>) =>
          files[1] = "{% if <custom_not> B %}X{% endif %}"

(***************************************************************************)
(* Writer.get_simple_tag_name, called from several threads.  A thread      *)
(* gives way to another between two lines of the method and between two    *)
(* turns of its loop.                                                      *)
(***************************************************************************)
\* d.get(key), as <<value>> or None
dict_get(d, key) ==
    LET hits == {i \in 1..Len(d) : d[i][1] = key}
    IN  IF hits = {} THEN None ELSE <<d[CHOOSE i \in hits : TRUE][2]>>

\* '.'.join((func.__module__, func.__name__))
qualified_name(func) == func.__module__ \o "." \o func.__name__

\* library.tags.items() of every loaded library, one after the other: tag k
\* is registered as tag<k> and compiled from the function func<k>
LibraryTags ==
    [k \in 1..MaxTags |->
        <<"tag" \o ToString(k),
          [__module__ |-> "app.templatetags.extras", __name__ |-> "func" \o ToString(k)]>>]

SimpleNode(func) == [type |-> "SimpleNode", func |-> func]

\* the nodes get_simple_tag_name is called with: one per registered tag, and
\* a node that is neither a SimpleNode nor an InclusionNode
TagNodes == {SimpleNode(LibraryTags[k][2]) : k \in 1..MaxTags} \cup {NowNode}

idle == [pc |-> "idle"]

InitTags ==
    /\ registered = <<>>
    /\ _resolved_simple_tags = None
    /\ threads = [t \in 1..MaxThreads |-> idle]
    /\ args = DefaultArgs
    /\ writer = Writer(args)
    /\ calls = <<>>
    /\ condition = None
    /\ bits = <<>>
    /\ NoConversion

\* lines 341-346: the isinstance test and the name looked for
TagCall(t) ==
    /\ threads[t].pc = "idle"
    /\ \E tag_node \in TagNodes :
          IF tag_node.type \notin {"SimpleNode", "InclusionNode"}
          THEN /\ writer' = warn(writer, "Can't get tag name from an unknown tag type", None)
               /\ threads' = [threads EXCEPT ![t] = [pc |-> "done", tag |-> tag_node, result |-> None]]
          ELSE /\ writer' = writer
               /\ threads' = [threads EXCEPT ![t] =
                      [pc |-> "test", tag |-> tag_node, target_name |-> qualified_name(tag_node.func)]]
    /\ UNCHANGED <<template, args, stack, pos, consumed, files, calls, condition, bits, registered, _resolved_simple_tags>>

\* line 348: if _resolved_simple_tags is None
TagTest(t) ==
    /\ threads[t].pc = "test"
    /\ threads' = [threads EXCEPT ![t].pc =
                      IF _resolved_simple_tags = None THEN "create" ELSE "get"]
    /\ UNCHANGED <<writer, template, args, stack, pos, consumed, files, calls, condition, bits, registered, _resolved_simple_tags>>

\* line 349: the global is bound to a new, empty dict
TagCreate(t) ==
    /\ threads[t].pc = "create"
    /\ _resolved_simple_tags' = [items |-> <<>>]
    /\ threads' = [threads EXCEPT ![t] =
                      [pc |-> IF Len(LibraryTags) = 0 THEN "get" ELSE "fill", i |-> 1] @@ @]
    /\ UNCHANGED <<writer, template, args, stack, pos, consumed, files, calls, condition, bits, registered>>

\* line 353, one turn of the loops: an item is set in the dict the global is
\* bound to at this moment
TagFill(t) ==
    /\ threads[t].pc = "fill"
    /\ LET func_name == LibraryTags[threads[t].i][1]
           func == LibraryTags[threads[t].i][2]
       IN  _resolved_simple_tags' =
               [items |-> dict_set(_resolved_simple_tags.items, qualified_name(func), func_name)]
    /\ threads' = [threads EXCEPT ![t] =
                      [pc |-> IF @.i = Len(LibraryTags) THEN "get" ELSE "fill", i |-> @.i + 1] @@ @]
    /\ UNCHANGED <<writer, template, args, stack, pos, consumed, files, calls, condition, bits, registered>>

\* line 355: return _resolved_simple_tags.get(target_name)
TagGet(t) ==
    /\ threads[t].pc = "get"
    /\ threads' = [threads EXCEPT ![t] =
                      [pc |-> "done",
                       tag |-> @.tag,
                       result |-> dict_get(_resolved_simple_tags.items, @.target_name)]]
    /\ UNCHANGED <<writer, template, args, stack, pos, consumed, files, calls, condition, bits, registered, _resolved_simple_tags>>

NextTags ==
    \E t \in 1..MaxThreads :
        \/ TagCall(t)
        \/ TagTest(t)
        \/ TagCreate(t)
        \/ TagFill(t)
        \/ TagGet(t)

SpecTags == InitTags /\ [][NextTags]_vars

\* the name a tag function is registered under in the loaded libraries
registered_name(func) ==
    LET hits == {k \in 1..Len(LibraryTags) : LibraryTags[k][2] = func}
    IN  IF hits = {} THEN None ELSE <<LibraryTags[CHOOSE k \in hits : TRUE][1]>>

\* C15: the reverse index is safe under simultaneous first use: every call
\* of get_simple_tag_name for a registered tag returns the name the tag is
\* registered under, also when the calls of several threads find the index
\* not yet built, and none returns None from an index filled in part.
C15_SafeFirstUse ==
    \A t \in 1..MaxThreads :
        (threads[t].pc = "done" /\ threads[t].tag.type = "SimpleNode") =>
            /\ threads[t].result # None
            /\ threads[t].result = registered_name(threads[t].tag.func)

====
